---- MODULE Spec2Model ----
(***************************************************************************)
(* The follow-request workflow of waver.com: the followers, notifications  *)
(* and profiles tables with their row-level-security policies and triggers *)
(* (database/users.sql), and the client handlers of the Profile page and   *)
(* of the NotificationsDropdown that issue the requests.                   *)
(***************************************************************************)
EXTENDS Integers, Sequences, FiniteSets, TLC

VARIABLES
    is_private,      \* profiles.is_private, per account
    followers,       \* the followers table, rows in insertion (created_at) order
    notifications,   \* the notifications table, rows in insertion order
    last,            \* the last request or event the database served, with its outcome
    pairs,           \* the ordered pairs (follower, target) this run's requests address
    currentUser,     \* Profile page: the authenticated user
    userId,          \* Profile page: the route parameter
    profile,         \* Profile page: id of the profile held in state, "none" for null
    isFollowing,     \* Profile page: useState(false)
    followStatus,    \* Profile page: useState(null), "none" for null
    followerCount,   \* Profile page: useState(0)
    toast,           \* Profile page: the last toast shown
    followAction,    \* NotificationsDropdown: the handleFollowAction call in flight
    notificationsState, \* NotificationsDropdown: useState notifications, entries [id, read]
    unreadCount,     \* NotificationsDropdown: useState(0)
    fetchState,      \* NotificationsDropdown: fetchNotifications, its step and its data
    channel,         \* NotificationsDropdown: id of the last INSERT event the channel passed on
    activeTab,       \* Profile page: useState("followers")
    currentPage,     \* Profile page: useState(1)
    followersState,  \* Profile page: useState followers, the row ids of the page shown
    followingState,  \* Profile page: useState following, the row ids of the page shown
    followingCount,  \* Profile page: useState(0)
    auth_users,      \* auth.users, rows [id, email, email_confirmed]
    profiles,        \* profiles, rows [id, email, email_verified, is_private]
    setup,           \* the script that defined handle_new_user last
    loading,         \* Profile page: useState(true)
    profileEffect    \* Profile page: the fetchProfile effect, "pending" until it has run

dbVars == <<is_private, followers, notifications>>
pageVars == <<currentUser, userId, profile, isFollowing, followStatus, followerCount,
              toast>>
listVars == <<notificationsState, unreadCount, fetchState, channel>>
tabVars == <<activeTab, currentPage, followersState, followingState, followingCount>>
authVars == <<auth_users, profiles, setup>>
loadVars == <<loading, profileEffect>>
restVars == <<pairs, tabVars, authVars, loadVars>>
dropVars == <<followAction, listVars>>
vars == <<is_private, followers, notifications, last, pairs, currentUser, userId, profile,
          isFollowing, followStatus, followerCount, toast, followAction,
          notificationsState, unreadCount, fetchState, channel,
          activeTab, currentPage, followersState, followingState, followingCount,
          auth_users, profiles, setup, loading, profileEffect>>

\* ------------------------------------------------------------------ bounds

\* Rows the notifications table may hold; every created edge adds one.
MaxNotifs == 2

\* .limit(10) of fetchNotifications.
FetchLimit == 10

\* ------------------------------------------------------------- data model

Accounts == {"a", "b", "c"}
Statuses == {"pending", "accepted", "rejected"}
AnyStatus == "any"

\* The ordered pairs one run addresses: two followers of one target, a mutual
\* pair, and a self-follow next to a follow of another account.
Scenarios ==
    { {<<"a", "b">>, <<"c", "b">>},
      {<<"a", "b">>, <<"b", "a">>},
      {<<"a", "a">>, <<"a", "b">>} }

TargetsOf(ps) == {p[2] : p \in ps}
\* The accounts that send requests in a run: a third party acts where two
\* followers share a target.
ActorsOf(ps) == {p[1] : p \in ps} \cup {p[2] : p \in ps}

Row(f, t, s) == [follower_id |-> f, following_id |-> t, status |-> s]
Notif(u, from, ty) == [user_id |-> u, from_user_id |-> from, type |-> ty, read |-> FALSE]

\* Indices of the followers rows of the ordered pair (f, t).
EdgeIdx(tbl, f, t) ==
    {i \in DOMAIN tbl : tbl[i].follower_id = f /\ tbl[i].following_id = t}

\* The status of edge f -> t, "absent" when there is no such row.
EdgeStatus(tbl, f, t) ==
    IF EdgeIdx(tbl, f, t) = {} THEN "absent"
    ELSE tbl[CHOOSE i \in EdgeIdx(tbl, f, t) : TRUE].status

\* countByStatus(userId, followers, accepted) over the whole table.
AcceptedFollowers(tbl, t) ==
    Cardinality({i \in DOMAIN tbl : tbl[i].following_id = t /\ tbl[i].status = "accepted"})

RECURSIVE SelectSeq2(_, _, _)
\* The subsequence of tbl at the indices in keep (order kept).
SelectSeq2(tbl, keep, i) ==
    IF i > Len(tbl) THEN <<>>
    ELSE (IF i \in keep THEN <<tbl[i]>> ELSE <<>>) \o SelectSeq2(tbl, keep, i + 1)

\* ------------------------------------------------ row-level-security policies

\* "Users can request to follow others": WITH CHECK (auth.uid() = follower_id)
FollowersInsertCheck(uid, row) == uid = row.follower_id

\* "Users can update their follow requests"
FollowersUpdateUsing(uid, row) == uid = row.following_id \/ uid = row.follower_id

\* "Users can delete their follow requests"
FollowersDeleteUsing(uid, row) == uid = row.follower_id \/ uid = row.following_id

\* "Users can view their followers" / "Users can view who they are following"
FollowersSelectUsing(uid, row) == uid = row.following_id \/ uid = row.follower_id

\* Mutant: the policy forgets the status of the edge.
ProfilesSelectUsing_any_edge(uid, id) ==
    \/ uid = id
    \/ is_private[id] = FALSE
    \/ \E i \in DOMAIN followers :
          /\ followers[i].follower_id = uid
          /\ followers[i].following_id = id

\* "Enable read access for users" on profiles
ProfilesSelectUsing(uid, id) ==
    \/ uid = id
    \/ is_private[id] = FALSE
    \/ \E i \in DOMAIN followers :
          /\ followers[i].follower_id = uid
          /\ followers[i].following_id = id
          /\ followers[i].status = "accepted"

\* Mutant: the policy lets every authenticated user update every profile.
ProfilesUpdateUsing_anyone(uid, id) == TRUE

\* "Users can update their own profile"
ProfilesUpdateUsing(uid, id) == uid = id

\* "Users can view their notifications"
NotificationsSelectUsing(uid, row) == uid = row.user_id

\* "Users can mark notifications as read"
NotificationsUpdateUsing(uid, row) == uid = row.user_id

\* "System can create notifications": WITH CHECK (true)
NotificationsInsertCheck(uid, row) == TRUE

\* ------------------------------------------------------------------ triggers

\* Mutant: the trigger does not look at the target's privacy.
handle_follow_request_always_accepted(new) ==
    [row   |-> [new EXCEPT !.status = "accepted"],
     notif |-> Notif(new.following_id, new.follower_id, "new_follower")]

\* Mutant: the trigger keeps the column default for a public target.
handle_follow_request_keeps_default(new) ==
    IF is_private[new.following_id]
    THEN [row   |-> [new EXCEPT !.status = "pending"],
          notif |-> Notif(new.following_id, new.follower_id, "follow_request")]
    ELSE [row   |-> new,
          notif |-> Notif(new.following_id, new.follower_id, "new_follower")]

\* Mutant: the trigger leaves the status the request supplied for a private target.
handle_follow_request_keeps_supplied(new) ==
    IF is_private[new.following_id]
    THEN [row   |-> new,
          notif |-> Notif(new.following_id, new.follower_id, "follow_request")]
    ELSE [row   |-> [new EXCEPT !.status = "accepted"],
          notif |-> Notif(new.following_id, new.follower_id, "new_follower")]

\* BEFORE INSERT ON followers: the status and the notification of a new row.
handle_follow_request(new) ==
    IF is_private[new.following_id]
    THEN [row   |-> [new EXCEPT !.status = "pending"],
          notif |-> Notif(new.following_id, new.follower_id, "follow_request")]
    ELSE [row   |-> [new EXCEPT !.status = "accepted"],
          notif |-> Notif(new.following_id, new.follower_id, "new_follower")]

\* Mutant: the cascade stops after the first pending row of the target.
handle_profile_privacy_change_first_row(id, old, new, tbl) ==
    IF new = TRUE /\ old = FALSE
    THEN [i \in DOMAIN tbl |->
            IF /\ tbl[i].following_id = id /\ tbl[i].status = "pending"
               /\ \A j \in 1..(i - 1) :
                     ~(tbl[j].following_id = id /\ tbl[j].status = "pending")
            THEN [tbl[i] EXCEPT !.status = "rejected"]
            ELSE tbl[i]]
    ELSE tbl

\* Mutant: the cascade does not compare with OLD.is_private.
handle_profile_privacy_change_ignores_old(id, old, new, tbl) ==
    IF new = TRUE
    THEN [i \in DOMAIN tbl |->
            IF tbl[i].following_id = id /\ tbl[i].status = "pending"
            THEN [tbl[i] EXCEPT !.status = "rejected"]
            ELSE tbl[i]]
    ELSE tbl

\* AFTER UPDATE OF is_private ON profiles: the followers table after the cascade.
handle_profile_privacy_change(id, old, new, tbl) ==
    IF new = TRUE /\ old = FALSE
    THEN [i \in DOMAIN tbl |->
            IF tbl[i].following_id = id /\ tbl[i].status = "pending"
            THEN [tbl[i] EXCEPT !.status = "rejected"]
            ELSE tbl[i]]
    ELSE tbl

\* ---------------------------------------------------------------- statements

\* Mutant: the constraint covers the status too.
FollowersUnique_with_status(tbl, row) ==
    \A i \in EdgeIdx(tbl, row.follower_id, row.following_id) : tbl[i].status # row.status

\* Mutant: the table has no unique constraint.
FollowersUnique_missing(tbl, row) == TRUE

\* UNIQUE(follower_id, following_id)
FollowersUnique(tbl, row) == EdgeIdx(tbl, row.follower_id, row.following_id) = {}

\* INSERT INTO followers (follower_id, following_id, status) as uid: the error.
InsertFollowerErr(uid, f, t, st) ==
    LET new == handle_follow_request(Row(f, t, st)).row
    IN  IF ~FollowersInsertCheck(uid, new) THEN "rls_violation"
        ELSE IF ~FollowersUnique(followers, new) THEN "unique_violation"
        ELSE "none"

\* The tables after the INSERT; a failed statement is rolled back with its trigger.
InsertFollower(uid, f, t, st) ==
    LET fired == handle_follow_request(Row(f, t, st))
    IN  IF InsertFollowerErr(uid, f, t, st) = "none"
        THEN /\ followers' = Append(followers, fired.row)
             /\ notifications' = Append(notifications, fired.notif)
        ELSE /\ followers' = followers
             /\ notifications' = notifications

\* Mutant: the filter matches the pair in either direction.
FollowerMatches_either_direction(row, f, t, expect) ==
    /\ \/ row.follower_id = f /\ row.following_id = t
       \/ row.follower_id = t /\ row.following_id = f
    /\ expect = AnyStatus \/ row.status = expect

\* Mutant: the status filter is dropped.
FollowerMatches_ignores_status(row, f, t, expect) ==
    /\ row.follower_id = f
    /\ row.following_id = t

\* Rows an UPDATE / DELETE of followers as uid with the filter (f, t, expect) reaches.
FollowerMatches(row, f, t, expect) ==
    /\ row.follower_id = f
    /\ row.following_id = t
    /\ expect = AnyStatus \/ row.status = expect

UpdateFollowerRows(uid, f, t, expect) ==
    {i \in DOMAIN followers :
        FollowerMatches(followers[i], f, t, expect) /\ FollowersUpdateUsing(uid, followers[i])}

\* UPDATE followers SET status = new WHERE follower_id = f AND following_id = t
\* [AND status = expect], as uid.
UpdateFollower(uid, f, t, expect, new) ==
    followers' = [i \in DOMAIN followers |->
                    IF i \in UpdateFollowerRows(uid, f, t, expect)
                    THEN [followers[i] EXCEPT !.status = new]
                    ELSE followers[i]]

DeleteFollowerRows(uid, f, t, expect) ==
    {i \in DOMAIN followers :
        FollowerMatches(followers[i], f, t, expect) /\ FollowersDeleteUsing(uid, followers[i])}

\* DELETE FROM followers WHERE follower_id = f AND following_id = t
\* [AND status = expect], as uid.
DeleteFollower(uid, f, t, expect) ==
    followers' = SelectSeq2(followers, DOMAIN followers \ DeleteFollowerRows(uid, f, t, expect), 1)

\* UPDATE profiles SET is_private = priv WHERE id = id, as uid, with its trigger.
UpdateProfile(uid, id, priv) ==
    IF ProfilesUpdateUsing(uid, id)
    THEN /\ is_private' = [is_private EXCEPT ![id] = priv]
         /\ followers' = handle_profile_privacy_change(id, is_private[id], priv, followers)
    ELSE /\ is_private' = is_private
         /\ followers' = followers

\* ---------------------------------------------------- requests of any client

\* What a request was and what the client got back: the statement, auth.uid(),
\* the filter or values sent, the error and the number of rows it reached.
Last(op, uid, f, t, st, err, rows) ==
    [op |-> op, uid |-> uid, f |-> f, t |-> t, st |-> st, err |-> err, rows |-> rows,
     cascaded |-> 0, id |-> 0]

\* Every account of the follow workflow has signed up with an email of its
\* own and has its profile row.
InitAuth ==
    /\ auth_users = {[id |-> u, email |-> u, email_confirmed |-> TRUE] : u \in Accounts}
    /\ profiles = {[id |-> u, email |-> u, email_verified |-> TRUE, is_private |-> FALSE] :
                      u \in Accounts}
    /\ setup = "users.sql"

InitDb ==
    /\ is_private = [u \in Accounts |-> FALSE]
    /\ followers = <<>>
    /\ notifications = <<>>
    /\ last = Last("init", "none", "none", "none", "none", "none", 0)
    /\ InitAuth

\* The Profile page before it is mounted (the useState initial values).
InitPage ==
    /\ userId = "none"
    /\ profile = "none"
    /\ isFollowing = FALSE
    /\ followStatus = "none"
    /\ followerCount = 0
    /\ toast = "none"
    /\ activeTab = "followers"
    /\ currentPage = 1
    /\ followersState = <<>>
    /\ followingState = <<>>
    /\ followingCount = 0
    /\ loading = TRUE
    /\ profileEffect = "pending"

\* No handleFollowAction call is in flight.
Idle == [step |-> "idle", notificationId |-> 0, fromUserId |-> "none", action |-> "none",
         rows |-> 0]

\* The dropdown once its fetch has returned, before any notification exists:
\* the list is empty and the channel is subscribed.
InitDropdown ==
    /\ followAction = Idle
    /\ notificationsState = <<>>
    /\ unreadCount = 0
    /\ fetchState = [step |-> "done", data |-> <<>>]
    /\ channel = 0

Init ==
    /\ InitDb
    /\ pairs \in Scenarios
    /\ InitPage
    /\ InitDropdown
    /\ currentUser = "none"

ApiInsertFollower(uid, f, t, st) ==
    /\ InsertFollowerErr(uid, f, t, st) = "none" => Len(notifications) < MaxNotifs
    /\ InsertFollower(uid, f, t, st)
    /\ last' = Last("insert", uid, f, t, st, InsertFollowerErr(uid, f, t, st),
                    IF InsertFollowerErr(uid, f, t, st) = "none" THEN 1 ELSE 0)
    /\ UNCHANGED <<is_private, restVars, dropVars, pageVars>>

ApiUpdateFollower(uid, f, t, expect, new) ==
    /\ UpdateFollower(uid, f, t, expect, new)
    /\ last' = Last("update", uid, f, t, new, "none",
                    Cardinality(UpdateFollowerRows(uid, f, t, expect)))
    /\ UNCHANGED <<is_private, notifications, restVars, dropVars, pageVars>>

ApiDeleteFollower(uid, f, t, expect) ==
    /\ DeleteFollower(uid, f, t, expect)
    /\ last' = Last("delete", uid, f, t, expect, "none",
                    Cardinality(DeleteFollowerRows(uid, f, t, expect)))
    /\ UNCHANGED <<is_private, notifications, restVars, dropVars, pageVars>>

ApiUpdateProfile(uid, id, priv) ==
    /\ UpdateProfile(uid, id, priv)
    /\ last' = [Last("update_profile", uid, "none", id,
                     IF priv THEN "private" ELSE "public", "none",
                     IF ProfilesUpdateUsing(uid, id) THEN 1 ELSE 0)
                EXCEPT !.cascaded = Cardinality({i \in DOMAIN followers :
                                        followers'[i] # followers[i]})]
    /\ UNCHANGED <<notifications, restVars, dropVars, pageVars>>

ApiSelectProfile(uid, id) ==
    /\ last' = Last("select_profile", uid, "none", id, "none", "none",
                    IF ProfilesSelectUsing(uid, id) THEN 1 ELSE 0)
    /\ UNCHANGED <<dbVars, restVars, dropVars, pageVars>>

\* Any authenticated client may send any of these requests; the policies and
\* triggers decide what they do.
Next ==
    \/ \E uid \in ActorsOf(pairs), p \in pairs, st \in {"pending", "accepted"} :
          ApiInsertFollower(uid, p[1], p[2], st)
    \/ \E uid \in ActorsOf(pairs), p \in pairs, n \in Statuses :
          ApiUpdateFollower(uid, p[1], p[2], AnyStatus, n)
    \/ \E uid \in ActorsOf(pairs), p \in pairs : ApiDeleteFollower(uid, p[1], p[2], AnyStatus)
    \/ \E uid \in ActorsOf(pairs), id \in TargetsOf(pairs), priv \in BOOLEAN :
          ApiUpdateProfile(uid, id, priv)
    \/ \E uid \in ActorsOf(pairs), id \in TargetsOf(pairs) : ApiSelectProfile(uid, id)

Spec == Init /\ [][Next]_vars

\* Inserts that supply any status, between owners who switch their privacy.
InitInsert ==
    /\ InitDb
    /\ pairs = {<<"a", "b">>, <<"b", "a">>}
    /\ InitPage
    /\ InitDropdown
    /\ currentUser = "none"

NextInsert ==
    \/ \E p \in pairs, st \in Statuses : ApiInsertFollower(p[1], p[1], p[2], st)
    \/ \E p \in pairs : ApiDeleteFollower(p[1], p[1], p[2], AnyStatus)
    \/ \E id \in TargetsOf(pairs), priv \in BOOLEAN : ApiUpdateProfile(id, id, priv)

SpecInsert == InitInsert /\ [][NextInsert]_vars

\* ------------------------------------------------------------------- sign-up

Setups == {"users.sql", "complete-setup.sql"}
Identities == {"a", "b"}
NoEmail == "null"
Emails == {"a@x", "b@x", NoEmail}

\* profiles: id PRIMARY KEY, email TEXT NOT NULL UNIQUE.
ProfilesInsertErr(row) ==
    IF row.email = NoEmail THEN "not_null_violation"
    ELSE IF \E p \in profiles : p.id = row.id \/ p.email = row.email THEN "unique_violation"
    ELSE "none"

\* AFTER INSERT ON auth.users, as the script run last defined it: the profile
\* rows after the trigger and the error it raises. complete-setup.sql returns
\* NEW from both of its exception handlers.
handle_new_user(new) ==
    LET row == [id |-> new.id, email |-> new.email,
                email_verified |-> new.email_confirmed, is_private |-> FALSE]
        err == ProfilesInsertErr(row)
    IN  IF err = "none" THEN [rows |-> profiles \cup {row}, raised |-> "none"]
        ELSE IF setup = "complete-setup.sql" THEN [rows |-> profiles, raised |-> "none"]
        ELSE [rows |-> profiles, raised |-> err]

\* The identity provider creates the account: INSERT INTO auth.users (id is its
\* key, a given email belongs to one user) and the trigger, in one transaction.
SignUp(i, email, confirmed) ==
    LET new == [id |-> i, email |-> email, email_confirmed |-> confirmed]
        taken == \E u \in auth_users : u.id = i \/ (email # NoEmail /\ u.email = email)
        out == handle_new_user(new)
        err == IF taken THEN "unique_violation" ELSE out.raised
    IN  /\ auth_users' = IF err = "none" THEN auth_users \cup {new} ELSE auth_users
        /\ profiles' = IF err = "none" THEN out.rows ELSE profiles
        /\ last' = Last("sign_up", i, "none", email,
                        IF confirmed THEN "confirmed" ELSE "unconfirmed", err,
                        IF err = "none" THEN 1 ELSE 0)
        /\ UNCHANGED <<dbVars, pairs, tabVars, loadVars, setup, pageVars, dropVars>>

\* UPDATE profiles SET email = ..., is_private = ... WHERE id = id, sent by uid.
ApiUpdateProfileRow(uid, id, email, priv) ==
    LET hit == {p \in profiles : p.id = id /\ ProfilesUpdateUsing(uid, id)}
        err == IF hit = {} THEN "none"
               ELSE IF email = NoEmail THEN "not_null_violation"
               ELSE IF \E p \in profiles : p.id # id /\ p.email = email
                    THEN "unique_violation"
               ELSE "none"
    IN  /\ profiles' = IF err # "none" THEN profiles
                       ELSE (profiles \ hit) \cup
                            {[p EXCEPT !.email = email, !.is_private = priv] : p \in hit}
        /\ last' = Last("update_profile_row", uid, "none", id, "none", err,
                        IF err = "none" THEN Cardinality(hit) ELSE 0)
        /\ UNCHANGED <<dbVars, pairs, tabVars, loadVars, auth_users, setup, pageVars, dropVars>>

\* An empty database on which either script defined handle_new_user last.
InitSignup ==
    /\ is_private = [u \in Accounts |-> FALSE]
    /\ followers = <<>>
    /\ notifications = <<>>
    /\ last = Last("init", "none", "none", "none", "none", "none", 0)
    /\ auth_users = {}
    /\ profiles = {}
    /\ setup \in Setups
    /\ pairs = {}
    /\ InitPage
    /\ InitDropdown
    /\ currentUser = "none"

NextSignup ==
    \/ \E i \in Identities, email \in Emails, confirmed \in BOOLEAN : SignUp(i, email, confirmed)
    \/ \E uid, id \in Identities, email \in Emails, priv \in BOOLEAN :
          ApiUpdateProfileRow(uid, id, email, priv)

SpecSignup == InitSignup /\ [][NextSignup]_vars

\* ------------------------------------------------------------ Profile page

\* The follow button the page renders: isOwnProfile, then followStatus, then
\* isFollowing decide it; nothing is rendered before a profile is held.
Rendered == profile # "none"
isOwnProfile == currentUser = userId
ShowsCancelRequest == Rendered /\ ~isOwnProfile /\ followStatus = "pending"
ShowsUnfollow == Rendered /\ ~isOwnProfile /\ followStatus # "pending" /\ isFollowing
ShowsFollow == Rendered /\ ~isOwnProfile /\ followStatus # "pending" /\ ~isFollowing

\* The rows of followers a SELECT as uid returns for the filter.
VisibleFollowers(uid, f, t) ==
    {i \in DOMAIN followers :
        FollowerMatches(followers[i], f, t, AnyStatus) /\ FollowersSelectUsing(uid, followers[i])}

\* count: "exact" of followers with following_id = id and status accepted, as uid.
CountFollowers(uid, id) ==
    Cardinality({i \in DOMAIN followers :
        /\ followers[i].following_id = id
        /\ followers[i].status = "accepted"
        /\ FollowersSelectUsing(uid, followers[i])})

\* The effect on [profile]: the count the page shows after fetchCounts.
fetchCounts(id) == CountFollowers(currentUser, id)

\* The effect on [userId, currentUser]: the page is routed to t and fetches; a
\* profile set in state runs the fetchCounts effect.
fetchProfile(t) ==
    /\ userId' = t
    /\ last' = Last("select_profile", currentUser, "none", t, "none",
                    IF ProfilesSelectUsing(currentUser, t) THEN "none" ELSE "no_rows",
                    IF ProfilesSelectUsing(currentUser, t) THEN 1 ELSE 0)
    /\ IF ProfilesSelectUsing(currentUser, t)
       THEN /\ profile' = t
            /\ followerCount' = fetchCounts(t)
            /\ toast' = toast
            /\ IF currentUser # t /\ VisibleFollowers(currentUser, currentUser, t) # {}
               THEN LET st == EdgeStatus(followers, currentUser, t)
                    IN  /\ isFollowing' = (st = "accepted")
                        /\ followStatus' = st
               ELSE UNCHANGED <<isFollowing, followStatus>>
       ELSE /\ toast' = "Failed to load profile"
            /\ UNCHANGED <<profile, followerCount, isFollowing, followStatus>>
    /\ loading' = FALSE
    /\ profileEffect' = "done"
    /\ UNCHANGED <<dbVars, pairs, tabVars, authVars, dropVars, currentUser>>

\* The fetchProfile effect of a mounted page, for the route and the session it
\* was mounted with: it returns at once when there is neither a userId nor a
\* user, and fetches userId || currentUser.id otherwise.
fetchProfile_effect ==
    /\ profileEffect = "pending"
    /\ IF userId = "none" /\ currentUser = "none"
       THEN /\ profileEffect' = "done"
            /\ last' = Last("return", "none", "none", "none", "none", "none", 0)
            /\ UNCHANGED <<dbVars, pairs, tabVars, authVars, dropVars, pageVars, loading>>
       ELSE fetchProfile(IF userId # "none" THEN userId ELSE currentUser)

handleFollow ==
    /\ ShowsFollow
    /\ LET err == InsertFollowerErr(currentUser, currentUser, profile, "pending")
           data == handle_follow_request(Row(currentUser, profile, "pending")).row
       IN  /\ err = "none" => Len(notifications) < MaxNotifs
           /\ InsertFollower(currentUser, currentUser, profile, "pending")
           /\ last' = Last("insert", currentUser, currentUser, profile, "pending", err,
                           IF err = "none" THEN 1 ELSE 0)
           /\ IF err # "none"
              THEN /\ toast' = "Failed to follow user"
                   /\ UNCHANGED <<isFollowing, followStatus, followerCount>>
              ELSE IF data.status = "accepted"
              THEN /\ isFollowing' = TRUE
                   /\ followStatus' = "accepted"
                   /\ followerCount' = followerCount + 1
                   /\ toast' = "You are now following this user"
              ELSE /\ followStatus' = "pending"
                   /\ toast' = "Follow request sent"
                   /\ UNCHANGED <<isFollowing, followerCount>>
    /\ UNCHANGED <<is_private, restVars, dropVars, currentUser, userId, profile>>

handleUnfollow ==
    /\ ShowsUnfollow
    /\ DeleteFollower(currentUser, currentUser, profile, AnyStatus)
    /\ last' = Last("delete", currentUser, currentUser, profile, AnyStatus, "none",
                    Cardinality(DeleteFollowerRows(currentUser, currentUser, profile, AnyStatus)))
    /\ isFollowing' = FALSE
    /\ followStatus' = "none"
    /\ followerCount' = followerCount - 1
    /\ toast' = "Unfollowed user"
    /\ UNCHANGED <<is_private, notifications, restVars, dropVars, currentUser, userId, profile>>

handleCancelRequest ==
    /\ ShowsCancelRequest
    /\ DeleteFollower(currentUser, currentUser, profile, "pending")
    /\ last' = Last("delete", currentUser, currentUser, profile, "pending", "none",
                    Cardinality(DeleteFollowerRows(currentUser, currentUser, profile, "pending")))
    /\ followStatus' = "none"
    /\ toast' = "Follow request cancelled"
    /\ UNCHANGED <<is_private, notifications, restVars, dropVars, currentUser, userId, profile,
                   isFollowing, followerCount>>

\* Requests of the other sessions while the page is open.
EnvLast == Last("other_session", "none", "none", "none", "none", "none", 0)

OtherInsertFollower(uid, f, t) ==
    /\ InsertFollowerErr(uid, f, t, "pending") = "none"
    /\ Len(notifications) < MaxNotifs
    /\ InsertFollower(uid, f, t, "pending")
    /\ last' = EnvLast
    /\ UNCHANGED <<is_private, restVars, dropVars, pageVars>>

OtherUpdateFollower(uid, f, t, new) ==
    /\ UpdateFollowerRows(uid, f, t, "pending") # {}
    /\ UpdateFollower(uid, f, t, "pending", new)
    /\ last' = EnvLast
    /\ UNCHANGED <<is_private, notifications, restVars, dropVars, pageVars>>

OtherDeleteFollower(uid, f, t) ==
    /\ DeleteFollowerRows(uid, f, t, AnyStatus) # {}
    /\ DeleteFollower(uid, f, t, AnyStatus)
    /\ last' = EnvLast
    /\ UNCHANGED <<is_private, notifications, restVars, dropVars, pageVars>>

OtherUpdateProfile(uid, priv) ==
    /\ is_private[uid] # priv
    /\ UpdateProfile(uid, uid, priv)
    /\ last' = EnvLast
    /\ UNCHANGED <<notifications, restVars, dropVars, pageVars>>

\* The page of user "a", who follows an account that has another follower, or
\* two accounts, or an account that follows back.
ScenariosProfile ==
    { {<<"a", "b">>, <<"c", "b">>},
      {<<"a", "b">>, <<"a", "c">>},
      {<<"a", "b">>, <<"b", "a">>} }

InitProfile ==
    /\ InitDb
    /\ pairs \in ScenariosProfile
    /\ InitPage
    /\ InitDropdown
    /\ currentUser = "a"

NextProfile ==
    \/ \E t \in TargetsOf(pairs) \cup {currentUser} : fetchProfile(t)
    \/ handleFollow
    \/ handleUnfollow
    \/ handleCancelRequest
    \/ \E p \in pairs : OtherInsertFollower(p[1], p[1], p[2])
    \/ \E p \in pairs, n \in {"accepted", "rejected"} : OtherUpdateFollower(p[2], p[1], p[2], n)
    \/ \E p \in pairs : OtherDeleteFollower(p[1], p[1], p[2])
    \/ \E u \in TargetsOf(pairs), priv \in BOOLEAN : OtherUpdateProfile(u, priv)

SpecProfile == InitProfile /\ [][NextProfile]_vars

\* ------------------------------------- Profile page: followers / following tabs

\* The most rows the followers table holds when the tabs are paged.
MaxEdges == 12

itemsPerPage == 10

Min2(x, y) == IF x < y THEN x ELSE y
Max2(x, y) == IF x > y THEN x ELSE y

RECURSIVE Reverse(_)
Reverse(s) == IF s = <<>> THEN <<>> ELSE Reverse(Tail(s)) \o <<Head(s)>>

\* .eq("following_id", id) on the followers tab, .eq("follower_id", id) on the
\* following tab, and .eq("status", "accepted") on both.
TabMatches(row, tab, id) ==
    /\ row.status = "accepted"
    /\ IF tab = "followers" THEN row.following_id = id ELSE row.follower_id = id

RECURSIVE TabRows(_, _, _, _)
\* The ids (positions in creation order) of the rows from i on that the query
\* of the tab matches and the SELECT policy shows to uid.
TabRows(uid, tab, id, i) ==
    IF i > Len(followers) THEN <<>>
    ELSE (IF TabMatches(followers[i], tab, id) /\ FollowersSelectUsing(uid, followers[i])
          THEN <<i>> ELSE <<>>) \o TabRows(uid, tab, id, i + 1)

\* The query has no .order(...): the database returns the matching rows in an
\* order of its choosing, which may differ from one query to the next.
ScanOrders == {"creation", "newest", "rotated"}

Scan(rows, ord) ==
    IF ord = "creation" \/ rows = <<>> THEN rows
    ELSE IF ord = "newest" THEN Reverse(rows)
    ELSE Tail(rows) \o <<Head(rows)>>

\* .range(from, to): rows from..to of the result, counted from 0, both included.
range(rows, from, to) == SubSeq(rows, from + 1, Min2(to + 1, Len(rows)))

\* count: "exact" of rows with follower_id = id and status accepted, as uid.
CountFollowing(uid, id) ==
    Cardinality({i \in DOMAIN followers :
        /\ followers[i].follower_id = id
        /\ followers[i].status = "accepted"
        /\ FollowersSelectUsing(uid, followers[i])})

totalPages ==
    ((IF activeTab = "followers" THEN followerCount ELSE followingCount)
        + itemsPerPage - 1) \div itemsPerPage

\* The effect on [profile, activeTab, currentPage], for the tab and the page
\* the state is moving to: one query, its rows put in the state of its tab.
fetchData(tab, page, ord) ==
    LET data == range(Scan(TabRows(currentUser, tab, profile, 1), ord),
                      (page - 1) * itemsPerPage, page * itemsPerPage - 1)
    IN  /\ profile # "none"
        /\ IF tab = "followers"
           THEN followersState' = data /\ followingState' = followingState
           ELSE followingState' = data /\ followersState' = followersState
        /\ last' = Last("select_followers", currentUser, "none", "none", "accepted", "none",
                        Len(data))

\* Mutant: a tab button does not go back to the first page.
setActiveTab_keeps_page(tab) ==
    /\ Rendered
    /\ activeTab' = tab
    /\ currentPage' = currentPage
    /\ \E ord \in ScanOrders : fetchData(tab, currentPage, ord)
    /\ UNCHANGED <<dbVars, pairs, authVars, loadVars, pageVars, dropVars, followingCount>>

\* The tab buttons.
setActiveTab(tab) ==
    /\ Rendered
    /\ activeTab' = tab
    /\ currentPage' = 1
    /\ \E ord \in ScanOrders : fetchData(tab, 1, ord)
    /\ UNCHANGED <<dbVars, pairs, authVars, loadVars, pageVars, dropVars, followingCount>>

\* The Previous button.
setCurrentPage_prev ==
    /\ Rendered
    /\ totalPages > 1
    /\ currentPage # 1
    /\ currentPage' = Max2(currentPage - 1, 1)
    /\ \E ord \in ScanOrders : fetchData(activeTab, currentPage', ord)
    /\ UNCHANGED <<dbVars, pairs, authVars, loadVars, pageVars, dropVars, activeTab, followingCount>>

\* The Next button.
setCurrentPage_next ==
    /\ Rendered
    /\ totalPages > 1
    /\ currentPage # totalPages
    /\ currentPage' = Min2(currentPage + 1, totalPages)
    /\ \E ord \in ScanOrders : fetchData(activeTab, currentPage', ord)
    /\ UNCHANGED <<dbVars, pairs, authVars, loadVars, pageVars, dropVars, activeTab, followingCount>>

\* Fans of "b", or accounts "b" is a fan of: one account per row.
Fan(i) == ToString(i)

\* The table the tabs are paged over: n rows in creation order between "b"
\* and n other accounts, all accepted but at most one.
EdgeTables ==
    {[i \in 1..n |-> IF tab = "followers"
                     THEN Row(Fan(i), "b", IF i = k THEN st ELSE "accepted")
                     ELSE Row("b", Fan(i), IF i = k THEN st ELSE "accepted")] :
        n \in 0..MaxEdges, k \in 0..MaxEdges, st \in {"pending", "rejected"},
        tab \in {"followers", "following"}}

\* The Profile page of "b" once fetchProfile and fetchCounts have returned and
\* before the first fetchData, seen by "b" or by the first fan.
InitTabs ==
    /\ is_private = [u \in Accounts |-> FALSE]
    /\ followers \in EdgeTables
    /\ notifications = <<>>
    /\ last = Last("init", "none", "none", "none", "none", "none", 0)
    /\ pairs = {<<Fan(1), "b">>}
    /\ currentUser \in {"b", Fan(1)}
    /\ userId = "b"
    /\ profile = "b"
    /\ isFollowing = (EdgeStatus(followers, currentUser, "b") = "accepted")
    /\ followStatus = (IF EdgeStatus(followers, currentUser, "b") = "absent" THEN "none"
                       ELSE EdgeStatus(followers, currentUser, "b"))
    /\ followerCount = CountFollowers(currentUser, "b")
    /\ followingCount = CountFollowing(currentUser, "b")
    /\ toast = "none"
    /\ activeTab = "followers"
    /\ currentPage = 1
    /\ followersState = <<>>
    /\ followingState = <<>>
    /\ loading = FALSE
    /\ profileEffect = "done"
    /\ InitDropdown
    /\ InitAuth

NextTabs ==
    \/ \E tab \in {"followers", "following"} : setActiveTab(tab)
    \/ setCurrentPage_prev
    \/ setCurrentPage_next
    \/ handleFollow
    \/ handleUnfollow
    \/ handleCancelRequest

SpecTabs == InitTabs /\ [][NextTabs]_vars

\* ---------------------------------------------------- NotificationsDropdown

\* The authenticated user of the session that renders the dropdown.
DropdownUser == "b"

\* Rows an UPDATE of notifications as uid with the filter id = id reaches.
MarkReadRows(uid, id) ==
    {i \in DOMAIN notifications : i = id /\ NotificationsUpdateUsing(uid, notifications[i])}

\* Mutant: the update flips the flag.
UpdateNotificationRead_flips(uid, id) ==
    notifications' = [i \in DOMAIN notifications |->
                        IF i \in MarkReadRows(uid, id)
                        THEN [notifications[i] EXCEPT !.read = ~notifications[i].read]
                        ELSE notifications[i]]

\* UPDATE notifications SET read = true WHERE id = id, as uid.
UpdateNotificationRead(uid, id) ==
    notifications' = [i \in DOMAIN notifications |->
                        IF i \in MarkReadRows(uid, id)
                        THEN [notifications[i] EXCEPT !.read = TRUE]
                        ELSE notifications[i]]

\* Rows an UPDATE of notifications as uid with the filter user_id = user and
\* read = false reaches.
MarkAllReadRows(uid, user) ==
    {i \in DOMAIN notifications :
        /\ notifications[i].user_id = user
        /\ notifications[i].read = FALSE
        /\ NotificationsUpdateUsing(uid, notifications[i])}

\* UPDATE notifications SET read = true WHERE user_id = user AND read = false, as uid.
UpdateNotificationsAllRead(uid, user) ==
    notifications' = [i \in DOMAIN notifications |->
                        IF i \in MarkAllReadRows(uid, user)
                        THEN [notifications[i] EXCEPT !.read = TRUE]
                        ELSE notifications[i]]

\* INSERT INTO notifications VALUES (row), as uid.
InsertNotification(uid, row) ==
    IF NotificationsInsertCheck(uid, row)
    THEN notifications' = Append(notifications, row)
    ELSE notifications' = notifications

\* The ids of the entries of the dropdown's list. An entry is kept as its id
\* and its local read flag; recipient, originator and type are those of the
\* row, which no request of the application changes.
ListIds == {notificationsState[i].id : i \in DOMAIN notificationsState}

\* The entries the dropdown renders with Accept and Reject buttons.
FollowRequests == {n \in ListIds : notifications[n].type = "follow_request"}

\* The entries rendered with the mark-as-read button.
UnreadIds ==
    {notificationsState[i].id : i \in {j \in DOMAIN notificationsState :
                                          ~notificationsState[j].read}}

\* Number of entries of a list whose read flag is false.
Unread(list) == Cardinality({i \in DOMAIN list : ~list[i].read})

RECURSIVE SelectNotifications(_, _, _)
\* SELECT ... WHERE user_id = user ORDER BY created_at DESC as uid, from row n
\* downwards, at most k rows.
SelectNotifications(uid, n, k) ==
    IF n = 0 \/ k = 0 THEN <<>>
    ELSE IF notifications[n].user_id = uid /\ NotificationsSelectUsing(uid, notifications[n])
         THEN <<[id |-> n, read |-> notifications[n].read]>>
                  \o SelectNotifications(uid, n - 1, k - 1)
         ELSE SelectNotifications(uid, n - 1, k)

\* fetchNotifications: the query as the database serves it.
fetchNotifications_query ==
    /\ fetchState.step = "sent"
    /\ fetchState' = [step |-> "received",
                      data |-> SelectNotifications(DropdownUser, Len(notifications),
                                                   FetchLimit)]
    /\ last' = Last("select_notifications", DropdownUser, "none", "none", "none", "none",
                    Len(SelectNotifications(DropdownUser, Len(notifications), FetchLimit)))
    /\ UNCHANGED <<dbVars, restVars, pageVars, followAction, notificationsState, unreadCount,
                   channel>>

\* fetchNotifications: the response replaces the list and the unread count.
fetchNotifications_done ==
    /\ fetchState.step = "received"
    /\ notificationsState' = fetchState.data
    /\ unreadCount' = Unread(fetchState.data)
    /\ fetchState' = [step |-> "done", data |-> <<>>]
    /\ last' = Last("response", DropdownUser, "none", "none", "none", "none",
                    Len(fetchState.data))
    /\ UNCHANGED <<dbVars, restVars, pageVars, followAction, channel>>

\* The INSERT events the channel has still to pass on: the rows with
\* user_id = currentUser.id inserted since the last event.
Events == {n \in (channel + 1)..Len(notifications) : notifications[n].user_id = DropdownUser}

\* The realtime callback for the INSERT of row n; events come one by one in
\* insertion order, at any later time.
push(n) ==
    /\ n \in Events
    /\ \A m \in Events : n <= m
    /\ notificationsState' = <<[id |-> n, read |-> FALSE]>> \o notificationsState
    /\ unreadCount' = unreadCount + 1
    /\ channel' = n
    /\ last' = [Last("event", DropdownUser, "none", "none", "none", "none", 1)
                EXCEPT !.id = n]
    /\ UNCHANGED <<dbVars, restVars, pageVars, followAction, fetchState>>

\* markAsRead after its request: the local entries and the count.
markAsRead_local(id) ==
    /\ notificationsState' = [i \in DOMAIN notificationsState |->
                                IF notificationsState[i].id = id
                                THEN [notificationsState[i] EXCEPT !.read = TRUE]
                                ELSE notificationsState[i]]
    /\ unreadCount' = unreadCount - 1

\* Mutant: the handler writes rejected whatever the button.
NewStatus_always_rejected(action) == "rejected"

\* The status handleFollowAction writes for an action.
NewStatus(action) == IF action = "accept" THEN "accepted" ELSE "rejected"

\* Mutant: the follower is notified of a rejection too.
NotifiesFollower_always(action) == TRUE

\* Whether handleFollowAction goes on to notify the follower.
NotifiesFollower(action) == action = "accept"

\* handleFollowAction up to its first await: the update of the followers row,
\* which reports no error when it reaches no row.
handleFollowAction(notificationId, fromUserId, action) ==
    /\ followAction.step = "idle"
    /\ notificationId \in FollowRequests
    /\ fromUserId = notifications[notificationId].from_user_id
    /\ NotifiesFollower(action) => Len(notifications) < MaxNotifs
    /\ unreadCount + MaxNotifs > 0
    /\ UpdateFollower(DropdownUser, fromUserId, DropdownUser, "pending", NewStatus(action))
    /\ last' = Last("update", DropdownUser, fromUserId, DropdownUser, NewStatus(action), "none",
                    Cardinality(UpdateFollowerRows(DropdownUser, fromUserId, DropdownUser,
                                                   "pending")))
    /\ followAction' = [step |-> "markAsRead", notificationId |-> notificationId,
                        fromUserId |-> fromUserId, action |-> action,
                        rows |-> Cardinality(UpdateFollowerRows(DropdownUser, fromUserId,
                                                                DropdownUser, "pending"))]
    /\ UNCHANGED <<is_private, notifications, restVars, pageVars, listVars>>

\* Its second await: markAsRead(notificationId).
handleFollowAction_markAsRead ==
    /\ followAction.step = "markAsRead"
    /\ UpdateNotificationRead(DropdownUser, followAction.notificationId)
    /\ last' = Last("mark_read", DropdownUser, "none", "none", "none", "none",
                    Cardinality(MarkReadRows(DropdownUser, followAction.notificationId)))
    /\ markAsRead_local(followAction.notificationId)
    /\ followAction' = IF NotifiesFollower(followAction.action)
                       THEN [followAction EXCEPT !.step = "insert"]
                       ELSE Idle
    /\ UNCHANGED <<is_private, followers, restVars, pageVars, fetchState, channel>>

\* Its third await, on accept: the follow_accepted notification for the follower.
handleFollowAction_insert ==
    /\ followAction.step = "insert"
    /\ Len(notifications) < MaxNotifs
    /\ InsertNotification(DropdownUser,
                          Notif(followAction.fromUserId, DropdownUser, "follow_accepted"))
    /\ last' = Last("insert_notification", DropdownUser, DropdownUser,
                    followAction.fromUserId, "follow_accepted", "none", 1)
    /\ followAction' = Idle
    /\ UNCHANGED <<is_private, followers, restVars, pageVars, listVars>>

\* A click on the mark-as-read button of an entry.
markAsRead(id) ==
    /\ id \in UnreadIds
    /\ UpdateNotificationRead(DropdownUser, id)
    /\ last' = Last("mark_read", DropdownUser, "none", "none", "none", "none",
                    Cardinality(MarkReadRows(DropdownUser, id)))
    /\ markAsRead_local(id)
    /\ UNCHANGED <<is_private, followers, restVars, pageVars, followAction, fetchState, channel>>

\* "Mark all as read", rendered while unreadCount > 0.
markAllAsRead ==
    /\ unreadCount > 0
    /\ UpdateNotificationsAllRead(DropdownUser, DropdownUser)
    /\ last' = Last("mark_all_read", DropdownUser, "none", "none", "none", "none",
                    Cardinality(MarkAllReadRows(DropdownUser, DropdownUser)))
    /\ notificationsState' = [i \in DOMAIN notificationsState |->
                                [notificationsState[i] EXCEPT !.read = TRUE]]
    /\ unreadCount' = 0
    /\ UNCHANGED <<is_private, followers, restVars, pageVars, followAction, fetchState, channel>>

\* The Profile page of "a" and the dropdown of "b", with one more follower of
\* "b" or with "b" following back; every follower has other sessions too.
ScenariosWorkflow ==
    { {<<"a", "b">>, <<"c", "b">>},
      {<<"a", "b">>, <<"b", "a">>} }

InitWorkflow ==
    /\ InitDb
    /\ pairs \in ScenariosWorkflow
    /\ InitPage
    /\ InitDropdown
    /\ currentUser = "a"

NextWorkflow ==
    \/ fetchProfile(DropdownUser)
    \/ handleFollow
    \/ handleUnfollow
    \/ handleCancelRequest
    \/ \E n \in FollowRequests, action \in {"accept", "reject"} :
          handleFollowAction(n, notifications[n].from_user_id, action)
    \/ handleFollowAction_markAsRead
    \/ handleFollowAction_insert
    \/ \E n \in DOMAIN notifications : push(n)
    \/ \E p \in pairs : OtherInsertFollower(p[1], p[1], p[2])
    \/ \E p \in pairs : OtherDeleteFollower(p[1], p[1], p[2])
    \/ \E priv \in BOOLEAN : OtherUpdateProfile(DropdownUser, priv)

SpecWorkflow == InitWorkflow /\ [][NextWorkflow]_vars

\* The dropdown of "b" alone, with the sessions of the accounts that follow "b"
\* and the privacy switch of "b".
ScenariosDropdown ==
    { {<<"a", "b">>, <<"c", "b">>} }

InitDropdownOnly ==
    /\ InitDb
    /\ pairs \in ScenariosDropdown
    /\ InitPage
    /\ InitDropdown
    /\ currentUser = "none"

NextDropdown ==
    \/ \E n \in FollowRequests, action \in {"accept", "reject"} :
          handleFollowAction(n, notifications[n].from_user_id, action)
    \/ handleFollowAction_markAsRead
    \/ handleFollowAction_insert
    \/ \E n \in DOMAIN notifications : push(n)
    \/ \E id \in UnreadIds : markAsRead(id)
    \/ markAllAsRead
    \/ \E p \in pairs : OtherInsertFollower(p[1], p[1], p[2])
    \/ \E p \in pairs : OtherDeleteFollower(p[1], p[1], p[2])
    \/ \E priv \in BOOLEAN : OtherUpdateProfile(DropdownUser, priv)

SpecDropdown == InitDropdownOnly /\ [][NextDropdown]_vars


\* The dropdown of "b" from its mount: the fetch is in flight and the channel
\* is subscribed while followers of "b", and "b" itself, create edges.
InitList ==
    /\ InitDb
    /\ pairs = {<<"a", "b">>, <<"c", "b">>, <<"b", "a">>}
    /\ InitPage
    /\ followAction = Idle
    /\ notificationsState = <<>>
    /\ unreadCount = 0
    /\ fetchState = [step |-> "sent", data |-> <<>>]
    /\ channel = 0
    /\ currentUser = "none"

NextList ==
    \/ fetchNotifications_query
    \/ fetchNotifications_done
    \/ \E n \in DOMAIN notifications : push(n)
    \/ \E p \in pairs : OtherInsertFollower(p[1], p[1], p[2])

SpecList == InitList /\ [][NextList]_vars

\* ------------------------------------- requests on notifications of any client

\* UPDATE notifications SET read = true WHERE id = id, sent by uid; the
\* statement returns no error whatever the number of rows it reaches.
ApiMarkRead(uid, id) ==
    /\ UpdateNotificationRead(uid, id)
    /\ last' = [Last("mark_read", uid, "none", "none", "none", "none",
                     Cardinality(MarkReadRows(uid, id)))
                EXCEPT !.id = id]
    /\ UNCHANGED <<is_private, followers, restVars, dropVars, pageVars>>

\* INSERT INTO notifications (user_id, from_user_id, type) sent by uid.
ApiInsertNotification(uid, user, from, ty) ==
    /\ Len(notifications) < MaxNotifs
    /\ InsertNotification(uid, Notif(user, from, ty))
    /\ last' = Last("insert_notification", uid, from, user, ty,
                    IF NotificationsInsertCheck(uid, Notif(user, from, ty))
                    THEN "none" ELSE "rls_violation",
                    IF NotificationsInsertCheck(uid, Notif(user, from, ty)) THEN 1 ELSE 0)
    /\ UNCHANGED <<is_private, followers, restVars, dropVars, pageVars>>

InitNotifications ==
    /\ InitDb
    /\ pairs = {<<"a", "b">>}
    /\ InitPage
    /\ InitDropdown
    /\ currentUser = "none"

\* Any authenticated client may send these requests, also for an id that no
\* row has.
NextNotifications ==
    \/ \E uid \in Accounts, id \in 1..MaxNotifs : ApiMarkRead(uid, id)
    \/ \E uid \in Accounts, user \in {"a", "b"}, from \in {"a", "b"} :
          ApiInsertNotification(uid, user, from, "follow_accepted")

SpecNotifications == InitNotifications /\ [][NextNotifications]_vars

\* Follow requests of a and of b in a's name, next to the notification rows
\* that any client may insert itself.
InitEmission ==
    /\ InitDb
    /\ pairs = {<<"a", "b">>}
    /\ InitPage
    /\ InitDropdown
    /\ currentUser = "none"

NextEmission ==
    \/ \E uid \in {"a", "b"}, p \in pairs : ApiInsertFollower(uid, p[1], p[2], "pending")
    \/ \E p \in pairs : ApiDeleteFollower(p[1], p[1], p[2], AnyStatus)
    \/ \E p \in pairs, priv \in BOOLEAN : ApiUpdateProfile(p[2], p[2], priv)
    \/ \E uid \in {"a", "b"}, p \in pairs, ty \in {"follow_request", "new_follower"} :
          ApiInsertNotification(uid, p[2], p[1], ty)

SpecEmission == InitEmission /\ [][NextEmission]_vars

\* Only "a" sends requests; "b" went private before and "c" is public, and
\* neither of them acts.
InitAlone ==
    /\ is_private = [u \in Accounts |-> u = "b"]
    /\ followers = <<>>
    /\ notifications = <<>>
    /\ last = Last("init", "none", "none", "none", "none", "none", 0)
    /\ InitAuth
    /\ pairs = {<<"a", "b">>, <<"a", "c">>}
    /\ InitPage
    /\ InitDropdown
    /\ currentUser = "none"

NextAlone ==
    \/ \E p \in pairs, st \in Statuses : ApiInsertFollower("a", p[1], p[2], st)
    \/ \E p \in pairs, n \in Statuses : ApiUpdateFollower("a", p[1], p[2], AnyStatus, n)
    \/ \E p \in pairs : ApiDeleteFollower("a", p[1], p[2], AnyStatus)
    \/ \E id \in TargetsOf(pairs), priv \in BOOLEAN : ApiUpdateProfile("a", id, priv)
    \/ \E id \in TargetsOf(pairs) : ApiSelectProfile("a", id)

SpecAlone == InitAlone /\ [][NextAlone]_vars

\* A page as it is mounted: with or without a route parameter, with or
\* without a session, on a profile that is public or private, while other
\* sessions request to follow and the owner switches the privacy.
InitLoading ==
    /\ is_private \in {[u \in Accounts |-> u = "b" /\ priv] : priv \in BOOLEAN}
    /\ followers = <<>>
    /\ notifications = <<>>
    /\ last = Last("init", "none", "none", "none", "none", "none", 0)
    /\ InitAuth
    /\ pairs = {<<"a", "b">>, <<"c", "b">>}
    /\ userId \in {"none", "b"}
    /\ currentUser \in {"none", "a"}
    /\ profile = "none"
    /\ isFollowing = FALSE
    /\ followStatus = "none"
    /\ followerCount = 0
    /\ toast = "none"
    /\ activeTab = "followers"
    /\ currentPage = 1
    /\ followersState = <<>>
    /\ followingState = <<>>
    /\ followingCount = 0
    /\ loading = TRUE
    /\ profileEffect = "pending"
    /\ InitDropdown

NextLoading ==
    \/ fetchProfile_effect
    \/ \E p \in pairs : OtherInsertFollower(p[1], p[1], p[2])
    \/ \E p \in pairs : OtherDeleteFollower(p[1], p[1], p[2])
    \/ \E priv \in BOOLEAN : OtherUpdateProfile("b", priv)

\* React runs the effect of a mounted component, and the request of the
\* effect resolves or rejects.
SpecLoading == InitLoading /\ [][NextLoading]_vars /\ WF_vars(fetchProfile_effect)

\* ----------------------------------------------------------------- claims

\* The pending edges whose target is id.
PendingTo(tbl, id) ==
    {i \in DOMAIN tbl : tbl[i].following_id = id /\ tbl[i].status = "pending"}

\* C1: right after the page has fetched a profile and its counts, the follower
\* count it reports equals the number of accepted edges targeting that profile
\* in the followers table, and is not negative.
C1_FollowerCountExact ==
    (last.op = "select_profile" /\ last.rows = 1 /\ profile = last.t)
        => /\ followerCount = AcceptedFollowers(followers, profile)
           /\ followerCount >= 0

\* C2: a request by A for a private B with no edge A->B creates the edge as
\* pending and appends exactly one notification, follow_request from A to B.
C2_RequestPrivate ==
    [][\A p \in pairs :
        (/\ last'.op = "insert" /\ last'.uid = p[1] /\ last'.f = p[1] /\ last'.t = p[2]
         /\ is_private[p[2]]
         /\ EdgeStatus(followers, p[1], p[2]) = "absent")
        => /\ last'.err = "none"
           /\ EdgeStatus(followers', p[1], p[2]) = "pending"
           /\ Cardinality(EdgeIdx(followers', p[1], p[2])) = 1
           /\ notifications' = Append(notifications, Notif(p[2], p[1], "follow_request"))]_vars

C2_Witness ==
    /\ last.op = "insert" /\ last.err = "none" /\ last.uid = last.f
    /\ is_private[last.t]
    /\ EdgeStatus(followers, last.f, last.t) = "pending"
    /\ Len(notifications) > 0
    /\ notifications[Len(notifications)] = Notif(last.t, last.f, "follow_request")

\* C3: a request by A for a public B with no edge A->B creates the edge as
\* accepted, appends exactly one notification, new_follower from A to B, and
\* raises the number of accepted edges targeting B by one.
C3_RequestPublic ==
    [][\A p \in pairs :
        (/\ last'.op = "insert" /\ last'.uid = p[1] /\ last'.f = p[1] /\ last'.t = p[2]
         /\ ~is_private[p[2]]
         /\ EdgeStatus(followers, p[1], p[2]) = "absent")
        => /\ last'.err = "none"
           /\ EdgeStatus(followers', p[1], p[2]) = "accepted"
           /\ notifications' = Append(notifications, Notif(p[2], p[1], "new_follower"))
           /\ AcceptedFollowers(followers', p[2]) = AcceptedFollowers(followers, p[2]) + 1]_vars

C3_Witness ==
    /\ last.op = "insert" /\ last.err = "none" /\ last.uid = last.f
    /\ ~is_private[last.t]
    /\ EdgeStatus(followers, last.f, last.t) = "accepted"
    /\ AcceptedFollowers(followers, last.t) = 2
    /\ notifications[Len(notifications)] = Notif(last.t, last.f, "new_follower")

\* C4: a request by A for B while an edge A->B exists, whatever its status,
\* fails with the unique violation and leaves edges and notifications as they were.
C4_DuplicateRequest ==
    [][\A p \in pairs :
        (/\ last'.op = "insert" /\ last'.uid = p[1] /\ last'.f = p[1] /\ last'.t = p[2]
         /\ EdgeStatus(followers, p[1], p[2]) # "absent")
        => /\ last'.err = "unique_violation"
           /\ followers' = followers
           /\ notifications' = notifications]_vars

C4_Witness ==
    /\ last.op = "insert" /\ last.err = "unique_violation"
    /\ EdgeStatus(followers, last.f, last.t) = "rejected"

\* C5: only a request of the target B moves edge A->B from pending to accepted
\* or rejected; a status update by anyone else leaves the edge unchanged.
C5_OnlyTargetTransitions ==
    [][\A p \in pairs :
        (/\ EdgeStatus(followers, p[1], p[2]) = "pending"
         /\ EdgeStatus(followers', p[1], p[2]) \in {"accepted", "rejected"})
        => last'.uid = p[2]]_vars

C7_CascadeRejectsPending ==
    [][\A id \in Accounts :
        (/\ last'.op = "update_profile" /\ last'.t = id
         /\ ~is_private[id] /\ is_private'[id])
        => /\ Len(followers') = Len(followers)
           /\ \A i \in PendingTo(followers, id) : followers'[i].status = "rejected"
           /\ PendingTo(followers', id) = {}]_vars

C7_Witness ==
    /\ last.op = "update_profile" /\ last.rows = 1 /\ last.st = "private"
    /\ is_private[last.t]
    /\ last.cascaded = 2
    /\ PendingTo(followers, last.t) = {}

\* C8: a privacy write on B changes no accepted or rejected edge and no edge
\* with another target; a write that does not move is_private from false to
\* true changes no edge at all.
C8_PrivacyFrame ==
    [][\A id \in Accounts :
        (last'.op = "update_profile" /\ last'.t = id)
        => /\ Len(followers') = Len(followers)
           /\ \A i \in DOMAIN followers :
                 (followers[i].status # "pending" \/ followers[i].following_id # id)
                     => followers'[i] = followers[i]
           /\ ~(~is_private[id] /\ is_private'[id]) => followers' = followers]_vars

C8_Witness ==
    /\ last.op = "update_profile" /\ last.rows = 1 /\ last.st = "private"
    /\ last.cascaded = 1
    /\ \E i \in DOMAIN followers :
          followers[i].following_id = last.t /\ followers[i].status = "accepted"

\* C9: a cancel of the page's user on an edge that is accepted removes nothing,
\* leaves it accepted, and is not reported as a successful cancellation.
C9_CancelReportsFailure ==
    (/\ last.op = "delete" /\ last.st = "pending"
     /\ EdgeStatus(followers, last.f, last.t) = "accepted")
        => toast # "Follow request cancelled"

\* C10: an unfollow of the page's user issued while edge A->B is pending or
\* rejected leaves the edge in place.
C10_UnfollowOnlyAccepted ==
    [][(/\ last'.op = "delete" /\ last'.st = AnyStatus
        /\ EdgeStatus(followers, last'.f, last'.t) \in {"pending", "rejected"})
       => followers' = followers]_vars

\* C11: an accept by the target on a pending edge sets it to accepted, raising
\* the target's accepted-follower count by one, and the call appends exactly one
\* notification, follow_accepted to the follower from the target, in its last
\* step; an unfollow of an accepted edge removes it and lowers the count by one,
\* so that request to private B, accept, unfollow takes the edge through
\* pending, accepted, absent and B's count through 0, 1, 0.
C11_AcceptThenUnfollow ==
    [][/\ (/\ followAction.step = "idle" /\ followAction'.step = "markAsRead"
           /\ followAction'.action = "accept"
           /\ EdgeStatus(followers, followAction'.fromUserId, DropdownUser) = "pending")
          => /\ EdgeStatus(followers', followAction'.fromUserId, DropdownUser) = "accepted"
             /\ AcceptedFollowers(followers', DropdownUser)
                    = AcceptedFollowers(followers, DropdownUser) + 1
             /\ notifications' = notifications
       /\ (followAction.step = "markAsRead" /\ followAction'.step # "markAsRead")
          => Len(notifications') = Len(notifications)
       /\ (followAction.step = "insert" /\ followAction'.step = "idle"
           /\ followAction.rows = 1)
          => notifications' = Append(notifications,
                                     Notif(followAction.fromUserId, DropdownUser,
                                           "follow_accepted"))
       /\ (/\ last'.op = "delete" /\ last'.st = AnyStatus
           /\ EdgeStatus(followers, last'.f, last'.t) = "accepted")
          => /\ EdgeStatus(followers', last'.f, last'.t) = "absent"
             /\ AcceptedFollowers(followers', last'.t)
                    = AcceptedFollowers(followers, last'.t) - 1]_vars

C11_Witness ==
    /\ last.op = "delete" /\ last.st = AnyStatus /\ last.rows = 1
    /\ last.f = "a" /\ last.t = DropdownUser
    /\ followers = <<>>
    /\ AcceptedFollowers(followers, DropdownUser) = 0
    /\ notifications = <<[Notif(DropdownUser, "a", "follow_request") EXCEPT !.read = TRUE],
                         Notif("a", DropdownUser, "follow_accepted")>>

\* C12: of two requests for the same ordered pair issued from the same state,
\* the one the database serves first creates the edge and the other fails with
\* the unique violation and changes nothing; after every step there is at most
\* one edge per ordered pair, and exactly one for a pair just requested.
C12_OneEdgePerPair ==
    [][/\ \A f, t \in Accounts : Cardinality(EdgeIdx(followers', f, t)) <= 1
       /\ last'.op = "insert"
          => /\ EdgeStatus(followers, last'.f, last'.t) = "absent"
                => /\ last'.err = "none"
                   /\ Len(followers') = Len(followers) + 1
             /\ EdgeStatus(followers, last'.f, last'.t) # "absent"
                => /\ last'.err = "unique_violation"
                   /\ followers' = followers
                   /\ notifications' = notifications
                   /\ toast' = "Failed to follow user"
             /\ Cardinality(EdgeIdx(followers', last'.f, last'.t)) = 1]_vars

C12_Witness ==
    /\ last.op = "insert" /\ last.err = "unique_violation" /\ last.uid = "a"
    /\ toast = "Failed to follow user"
    /\ Cardinality(EdgeIdx(followers, "a", DropdownUser)) = 1
    /\ Len(notifications) = 1
    /\ notifications[1].from_user_id = "a"

\* C13: the update of an accept or reject reaches an edge only if it is pending
\* at that moment, so it changes nothing when the cascade or another
\* transition came first; and a privacy write changes only pending edges, so an
\* accept that came first stays.
C13_FirstTransitionWins ==
    [][/\ (followAction.step = "idle" /\ followAction'.step = "markAsRead")
          => /\ Len(followers') = Len(followers)
             /\ \A i \in DOMAIN followers :
                   followers[i].status # "pending" => followers'[i] = followers[i]
             /\ followAction'.rows = 0 <=> followers' = followers
       /\ is_private' # is_private
          => /\ Len(followers') = Len(followers)
             /\ \A i \in DOMAIN followers :
                   followers[i].status # "pending" => followers'[i] = followers[i]]_vars

\* An accept that found the edge already rejected by the cascade.
C13_Witness ==
    /\ followAction.step = "markAsRead" /\ followAction.action = "accept"
    /\ followAction.rows = 0
    /\ EdgeStatus(followers, followAction.fromUserId, DropdownUser) = "rejected"
    /\ is_private[DropdownUser]
    /\ \A n \in DOMAIN notifications : ~notifications[n].read

\* C14: an accept or reject whose update found the edge not pending (or gone)
\* has no further effect: the steps of that call mark no notification read and
\* append none.
C14_NonPendingHasNoEffect ==
    [][(/\ followAction.step # "idle" /\ followAction.rows = 0
        /\ followAction' # followAction)
       => notifications' = notifications]_vars

\* C15: once an edge is rejected, no step of the Profile page or of the
\* dropdown changes its status or removes it.
C15_RejectedIsTerminal ==
    [][\A p \in pairs :
        (EdgeStatus(followers, p[1], p[2]) = "rejected" /\ last'.op # "other_session")
        => EdgeStatus(followers', p[1], p[2]) = "rejected"]_vars

\* C16: no row of followers has follower_id = following_id.
C16_NoSelfFollow ==
    \A i \in DOMAIN followers : followers[i].follower_id # followers[i].following_id

\* C17: an insert of an edge whose follower is not the requesting account
\* fails and changes nothing, and a delete addressed to edge A->B by any
\* account but A leaves the followers table as it was.
C17_OnlyFollowerCreatesAndDeletes ==
    [][\A p \in pairs :
        /\ (/\ last'.op = "insert" /\ last'.f = p[1] /\ last'.t = p[2]
            /\ last'.uid # p[1])
           => /\ last'.err = "rls_violation"
              /\ followers' = followers
              /\ notifications' = notifications
        /\ (/\ last'.op = "delete" /\ last'.f = p[1] /\ last'.t = p[2]
            /\ last'.uid # p[1])
           => followers' = followers]_vars

\* The rows of tbl that do not belong to the ordered pair (f, t), in order.
OtherEdges(tbl, f, t) == SelectSeq2(tbl, DOMAIN tbl \ EdgeIdx(tbl, f, t), 1)

\* C18: a request, accept, reject, cancel or unfollow addressed to the ordered
\* pair (A, B) leaves the rows of every other pair, B->A included, as they were.
C18_OtherEdgesUnchanged ==
    [][last'.op \in {"insert", "update", "delete"}
       => OtherEdges(followers', last'.f, last'.t) = OtherEdges(followers, last'.f, last'.t)]_vars

\* An unfollow of a -> b that removed it while b -> a stays accepted.
C18_Witness ==
    /\ last.op = "delete" /\ last.rows = 1 /\ last.f = "a" /\ last.t = "b"
    /\ EdgeStatus(followers, "a", "b") = "absent"
    /\ EdgeStatus(followers, "b", "a") = "accepted"

\* C19: the step that takes an edge from pending to rejected, the target's
\* reject or the privacy cascade, leaves the notifications table unchanged, and
\* no step of a reject call appends a notification.
C19_RejectionIsSilent ==
    [][/\ (\E p \in pairs : /\ EdgeStatus(followers, p[1], p[2]) = "pending"
                            /\ EdgeStatus(followers', p[1], p[2]) = "rejected")
          => notifications' = notifications
       /\ (/\ followAction' # followAction
           /\ "reject" \in {followAction.action, followAction'.action})
          => Len(notifications') = Len(notifications)]_vars

\* One request rejected by a finished reject call, the other by the cascade.
C19_Witness ==
    /\ followAction = Idle
    /\ is_private[DropdownUser]
    /\ EdgeStatus(followers, "a", DropdownUser) = "rejected"
    /\ EdgeStatus(followers, "c", DropdownUser) = "rejected"
    /\ Len(notifications) = 2
    /\ \A n \in DOMAIN notifications : notifications[n].type = "follow_request"
    /\ Cardinality({n \in DOMAIN notifications : notifications[n].read}) = 1

\* C20: every step that appends to notifications appends one row that answers
\* a transition: a follow_accepted to A from B is appended by an accept call
\* of B for A whose update moved the edge A->B from pending to accepted, and a
\* follow_request or new_follower is appended by the step that creates the
\* edge it names.
C20_NotificationsFollowTransitions ==
    [][Len(notifications') > Len(notifications)
       => LET n == notifications'[Len(notifications')]
          IN  /\ Len(notifications') = Len(notifications) + 1
              /\ n.type = "follow_accepted"
                 => /\ followAction.action = "accept"
                    /\ followAction.fromUserId = n.user_id
                    /\ n.from_user_id = DropdownUser
                    /\ followAction.rows = 1
              /\ n.type \in {"follow_request", "new_follower"}
                 => /\ Len(followers') = Len(followers) + 1
                    /\ followers'[Len(followers')]
                         = Row(n.from_user_id, n.user_id,
                               IF n.type = "follow_request" THEN "pending" ELSE "accepted")]_vars

C22_MarkReadChecked ==
    [][last'.op = "mark_read"
       => IF /\ last'.id \in DOMAIN notifications
             /\ notifications[last'.id].user_id = last'.uid
          THEN notifications' = [notifications EXCEPT ![last'.id].read = TRUE]
          ELSE /\ notifications' = notifications
               /\ last'.err # "none"]_vars

\* C23: the list the dropdown shows holds only notifications addressed to its
\* user, newest first, and holds at most FetchLimit entries when the fetch
\* response has just been applied.
C23_ListNewestFirst ==
    /\ \A i \in DOMAIN notificationsState :
          notifications[notificationsState[i].id].user_id = DropdownUser
    /\ \A i, j \in DOMAIN notificationsState :
          i < j => notificationsState[i].id >= notificationsState[j].id
    /\ last.op = "response" => Len(notificationsState) <= FetchLimit

RECURSIVE AcceptedEdges(_, _, _)
\* The ids of all accepted edges to id (tab "followers") or from id (tab
\* "following") from row i on, oldest first.
AcceptedEdges(tab, id, i) ==
    IF i > Len(followers) THEN <<>>
    ELSE (IF TabMatches(followers[i], tab, id) THEN <<i>> ELSE <<>>)
         \o AcceptedEdges(tab, id, i + 1)

\* C24: the list the owner's page shows for tab and page p is the slice
\* (p-1)*itemsPerPage .. p*itemsPerPage-1 of the accepted edges, newest first.
C24_PageIsNewestFirstSlice ==
    (last.op = "select_followers" /\ currentUser = profile) =>
        (IF activeTab = "followers" THEN followersState ELSE followingState)
            = range(Reverse(AcceptedEdges(activeTab, profile, 1)),
                    (currentPage - 1) * itemsPerPage, currentPage * itemsPerPage - 1)

\* C25: a sign-up that creates the account of identity i leaves exactly one
\* profile row with id i, not private and with email_verified equal to the
\* provider's confirmation; a sign-up for an identity or an email that is
\* taken creates no row; no sign-up modifies or removes an existing row.
C25_SignupCreatesOneProfile ==
    [][last'.op = "sign_up" =>
        /\ profiles \subseteq profiles'
        /\ last'.err # "none" => profiles' = profiles
        /\ last'.err = "none" =>
              {p \in profiles' : p.id = last'.uid}
                  = {[id |-> last'.uid, email |-> last'.t,
                      email_verified |-> (last'.st = "confirmed"),
                      is_private |-> FALSE]}]_vars

\* C26: a cancel or an unfollow that finds no edge (NotFound) is surfaced as an
\* outcome of its own: the page does not report it with the text it shows for
\* a withdrawal that removed the edge, which is also the text it shows for a
\* cancel of an accepted edge (InvalidTransition).
C26_NotFoundSurfaced ==
    (/\ last.op = "delete" /\ last.uid = currentUser /\ last.rows = 0
     /\ EdgeStatus(followers, last.f, last.t) = "absent")
        => toast \notin {"Follow request cancelled", "Unfollowed user"}

\* C27: is_private of account X changes only in an update of X's profile sent
\* by X; an update of X's profile sent by another account reaches no row,
\* leaves every is_private flag and every edge as it was, and cascades nothing.
C27_OnlyOwnerUpdatesProfile ==
    [][/\ \A x \in Accounts :
            is_private'[x] # is_private[x]
                => (last'.op = "update_profile" /\ last'.uid = x /\ last'.t = x)
       /\ (last'.op = "update_profile" /\ last'.uid # last'.t)
            => /\ is_private' = is_private
               /\ followers' = followers
               /\ last'.rows = 0
               /\ last'.cascaded = 0]_vars

C27_Witness ==
    /\ last.op = "update_profile" /\ last.uid # last.t /\ last.st = "private"
    /\ last.rows = 0
    /\ ~is_private[last.t]
    /\ PendingTo(followers, last.t) # {}

\* C28: in every state, a call of the dropdown's user whose accept has moved
\* an edge to accepted has its follow_accepted notification to the follower in
\* the log, and every edge of the table has the follow_request or new_follower
\* notification of its creation.
C28_TransitionWithNotification ==
    /\ (/\ followAction.step # "idle" /\ followAction.action = "accept"
        /\ followAction.rows = 1)
          => \E n \in DOMAIN notifications :
                /\ notifications[n].user_id = followAction.fromUserId
                /\ notifications[n].from_user_id = DropdownUser
                /\ notifications[n].type = "follow_accepted"
    /\ \A i \in DOMAIN followers :
          \E n \in DOMAIN notifications :
             /\ notifications[n].user_id = followers[i].following_id
             /\ notifications[n].from_user_id = followers[i].follower_id
             /\ notifications[n].type \in {"follow_request", "new_follower"}

\* C29: an unfollow or a cancel of the page's user that finds no edge fails,
\* changes no row and leaves the follower count the page shows as it was; the
\* count is lowered only by a step that removes an edge that was accepted.
C29_WithdrawCount ==
    [][(last'.op = "delete" /\ last'.uid = currentUser) =>
        /\ EdgeStatus(followers, last'.f, last'.t) = "absent"
              => /\ followers' = followers
                 /\ followerCount' = followerCount
                 /\ last'.err # "none"
        /\ followerCount' < followerCount
              => /\ EdgeStatus(followers, last'.f, last'.t) = "accepted"
                 /\ EdgeStatus(followers', last'.f, last'.t) = "absent"]_vars

\* C30: the status of a newly inserted edge is pending if its target is
\* private at the insertion and accepted otherwise, whatever status the
\* request supplied.
C30_InitialStatusFromPrivacy ==
    [][(last'.op = "insert" /\ last'.err = "none") =>
        /\ last'.st \in Statuses
        /\ Len(followers') = Len(followers) + 1
        /\ followers'[Len(followers')] =
              Row(last'.f, last'.t, IF is_private[last'.t] THEN "pending" ELSE "accepted")]_vars

C30_Witness ==
    /\ last.op = "insert" /\ last.err = "none" /\ last.st = "accepted"
    /\ is_private[last.t]
    /\ followers[Len(followers)] = Row(last.f, last.t, "pending")
    /\ \E i \in DOMAIN followers :
          followers[i] = Row(last.t, last.f, "accepted")

\* The follow_request and new_follower notifications to t from f in a log.
RequestNotifs(log, f, t) ==
    {n \in DOMAIN log : /\ log[n].user_id = t /\ log[n].from_user_id = f
                        /\ log[n].type \in {"follow_request", "new_follower"}}

\* C31: in every step, the number of follow_request and new_follower
\* notifications to B from A grows by one if the step creates an edge A->B
\* and stays as it is otherwise; a failed request appends nothing.
C31_NotificationsCountCreations ==
    [][\A p \in pairs :
        LET created == /\ Len(followers') = Len(followers) + 1
                       /\ followers'[Len(followers')].follower_id = p[1]
                       /\ followers'[Len(followers')].following_id = p[2]
        IN  Cardinality(RequestNotifs(notifications', p[1], p[2]))
                = Cardinality(RequestNotifs(notifications, p[1], p[2]))
                    + (IF created THEN 1 ELSE 0)]_vars

\* C32: while only A acts, A has no accepted edge to a private B and no read
\* of B's profile by A returns the row.
C32_NoSelfApproval ==
    \A p \in pairs :
        is_private[p[2]] =>
            /\ EdgeStatus(followers, p[1], p[2]) # "accepted"
            /\ ~(/\ last.op = "select_profile" /\ last.uid = p[1] /\ last.t = p[2]
                 /\ last.rows = 1)

SeqRange(q) == {q[i] : i \in DOMAIN q}

\* C33: a viewer allowed to read the profile obtains the follower count the
\* owner of the profile obtains and, when the accepted edges fit on one page,
\* the same rows on the followers tab as the owner, in whatever order.
C33_ViewerIndependent ==
    (/\ last.op = "select_followers" /\ activeTab = "followers"
     /\ ProfilesSelectUsing(currentUser, profile))
        => /\ followerCount = CountFollowers(profile, profile)
           /\ CountFollowers(profile, profile) <= itemsPerPage
                => SeqRange(followersState)
                     = SeqRange(TabRows(profile, "followers", profile, 1))

\* C34: right after the page has fetched the profile of another account T,
\* followStatus and isFollowing are those of the edge from the page's user to
\* T in the table: "none" and FALSE when there is no such edge.
C34_FollowStateMatchesEdge ==
    (/\ last.op = "select_profile" /\ last.rows = 1 /\ profile = last.t
     /\ last.t # currentUser)
        => LET st == EdgeStatus(followers, currentUser, profile)
           IN  /\ followStatus = (IF st = "absent" THEN "none" ELSE st)
               /\ isFollowing = (st = "accepted")

\* C35: the dropdown's unreadCount is the number of entries of its list whose
\* read flag is false, and is not negative.
C35_UnreadCountMatchesList ==
    /\ unreadCount = Unread(notificationsState)
    /\ unreadCount >= 0

\* The notifications of the dropdown's user that the channel has delivered.
Pushed == {n \in 1..channel : notifications[n].user_id = DropdownUser}

\* C36: every notification the channel has delivered is in the dropdown's list
\* exactly once, whenever the fetch completes.
C36_PushedExactlyOnce ==
    \A n \in Pushed :
        Cardinality({i \in DOMAIN notificationsState : notificationsState[i].id = n}) = 1

\* C37: the loading state of a mounted profile page eventually becomes false.
C37_LoadingEnds == <>(loading = FALSE)

====
